---- MODULE Spec2Model ----
(***************************************************************************)
(* Model of the Sauce Labs test runner: TestRunner (runTests / runTest),   *)
(* the concurrency-limited scheduler it submits its tasks through, and the *)
(* Job lifecycle (start, poll until completed, classify, evaluate).        *)
(*                                                                         *)
(* JavaScript values are encoded as strings ("true", "false", "undefined", *)
(* "null"); null references are the empty tuple.  A task is the index of   *)
(* its invocation of the throttled runner, which is also the index of its  *)
(* handle in the array given to Q.all.                                     *)
(*                                                                         *)
(* Promise callbacks run from Q's tick queue, which is flushed before the  *)
(* event loop delivers the next I/O or timer event: the actions that model *)
(* a promise callback take priority over the actions that model a response *)
(* of the service, a poll timer or the hook's callback (NoMicrotask).      *)
(***************************************************************************)
EXTENDS Integers, Sequences, FiniteSets

\* ------------------------------------------------------------------ bounds
\* the most browser x URL combinations of a run
MaxJobs == 2
\* the largest throttle limit
MaxThrottle == 2
\* the most invocations in one burst, for the runs that exercise the queue
MaxBurst == 3
\* the most 'not completed' answers to one job, in the runs that keep a trace
MaxPolls == 2

\* --------------------------------------------------------------- constants
NumberMaxValue == 1000000

Null == << >>

\* The properties the runs do not vary.
User == "username"
Build == "build"
TestName == "testname"
TunnelId == "identifier"

Frameworks == {"jasmine", "qunit", "mocha", "YUI Test", "custom"}
\* The framework identifiers a run is configured with: the registered ones and
\* one that has no parser.
FrameworkIds == Frameworks \cup {"tap"}

VARIABLES
  browsers,      \* TestRunner.browsers: sequence of browser ids
  urls,          \* TestRunner.urls: sequence of url ids
  framework,     \* TestRunner.framework
  throttled,     \* TestRunner.throttled (0: not set)
  onTestComplete,\* TestRunner.onTestComplete: whether a hook is configured
  hookWrites,    \* what that hook may write to the object it is given
  sauceConfig,   \* TestRunner.sauceConfig: the extra options, key -> value
  tunneled,      \* TestRunner.tunneled
  pollInterval,  \* TestRunner.pollInterval
  logging,       \* whether the run keeps the trace of its jobs
  pc,            \* position of the caller of runTests
  calls,         \* the arguments <<browser, url>> of each invocation, in order
  queue,         \* scheduler: pending invocations, in submission order
  running,       \* scheduler: number of occupied slots
  st,            \* per task: state of the handle returned by throttledRunTest
  results,       \* Q.all's array: per task, the value its handle resolved with
  job,           \* per task: the Job object and the position of its runTest
  startedJobs,   \* TestRunner.startedJobs
  agg,           \* the promise of Q.all(promises)
  ret,           \* the promise runTests returns
  events,        \* the progress reported to the sink, in order
  trace          \* per task: the requests its Job issued, the answers it got,
                 \* the delays it scheduled and how its handle settled, in order

vars == <<browsers, urls, framework, throttled, onTestComplete, hookWrites, sauceConfig,
          tunneled, pollInterval, logging, pc, calls, queue, running, st,
          results, job, startedJobs, agg, ret, events, trace>>

config == <<browsers, urls, framework, throttled, onTestComplete, hookWrites, sauceConfig,
            tunneled, pollInterval, logging>>

\* ----------------------------------------------------------------- helpers
numberOfJobs == Len(browsers) * Len(urls)

Tasks == 1..numberOfJobs

Ids(n) == [i \in 1..n |-> i]

RECURSIVE Flatten(_)
Flatten(ss) == IF ss = << >> THEN << >> ELSE Head(ss) \o Flatten(Tail(ss))

Range(s) == {s[i] : i \in 1..Len(s)}

Bool(b) == IF b THEN "true" ELSE "false"

\* JavaScript's !!v
Truthy(v) == v \notin {"undefined", "null", "false"}

\* ------------------------------------------------------- result evaluators
\* The raw results the service can report for a framework.
Payloads(fw) ==
  CASE fw = "jasmine" -> [passed : {"true", "false", "undefined"}]
    [] fw \in {"qunit", "YUI Test"} -> [passed : 0..1, total : 0..1]
    [] fw = "mocha" -> [failures : 0..1]
    [] OTHER -> [failed : 0..1]

\* Parsers that count a run as passed when at least the total has passed.
resultParsersAtLeast(fw, result) ==
  CASE fw = "jasmine" -> result.passed
    [] fw = "qunit" -> Bool(result.passed >= result.total)
    [] fw = "mocha" -> Bool(result.failures = 0)
    [] fw = "YUI Test" -> Bool(result.passed >= result.total)
    [] fw = "custom" -> Bool(result.failed = 0)

resultParsers(fw, result) ==
  CASE fw = "jasmine" -> result.passed
    [] fw = "qunit" -> Bool(result.passed = result.total)
    [] fw = "mocha" -> Bool(result.failures = 0)
    [] fw = "YUI Test" -> Bool(result.passed = result.total)
    [] fw = "custom" -> Bool(result.failed = 0)

\* --------------------------------------------------------------------- Job
NoJob ==
  [state |-> "None", url |-> Null, platform |-> Null, taskId |-> Null,
   id |-> Null, status |-> "none", passed |-> "none", parsed |-> FALSE,
   hooking |-> FALSE]

\* new Job(...): id and taskId are null
NewJob(browser, url) ==
  [NoJob EXCEPT !.state = "Created", !.url = <<url>>, !.platform = <<browser>>]

\* The references the service assigns to the task of a job.
TaskRef(j) == <<"task">> \o j.platform \o j.url
JobRef(j) == <<"job">> \o j.platform \o j.url

StartUrl == <<"https://saucelabs.com/rest/v1", User, "js-tests">>
StatusUrl == <<"https://saucelabs.com/rest/v1", User, "js-tests/status">>

Error(t, msg) == [job |-> t, msg |-> msg]

HttpErrorText == "Unexpected response from the Sauce Labs API"

\* composeHttpErrorMessage: the lines of the message
composeHttpErrorMessage(method, url, response, body) ==
  <<HttpErrorText, <<method, url>>, <<"Response status", response.statusCode>>,
    <<"Body", body>>>>

\* The error of task t for a response r to the request method url that start()
\* or fetch() does not accept, given the message msg they throw.
HttpError(t, msg, method, url, r) ==
  IF msg = HttpErrorText
  THEN [job |-> t, msg |-> msg,
        text |-> composeHttpErrorMessage(method, url, r, r.body)]
  ELSE Error(t, msg)

\* What the service may answer to the submission request.
StartResponses ==
  {[kind |-> "connect"]} \cup
  [kind : {"response"}, statusCode : {200, 500},
   body : {"absent", "no js tests", "empty js tests", "js tests"}]

\* Job.prototype.start, the handlers of the response: "" when it resolves,
\* the message it throws otherwise.
startError(r) ==
  IF r.kind = "connect" THEN "Could not connect to Sauce Labs API"
  ELSE IF r.body = "absent" THEN "TypeError"
  ELSE IF r.statusCode # 200 THEN HttpErrorText
  ELSE IF r.body # "js tests" THEN "Error starting tests through Sauce API"
  ELSE ""

\* What the service may answer to a status query.
StatusResponses(fw) ==
  {[kind |-> "connect"]} \cup
  [kind : {"response"}, statusCode : {500}, body : {"absent", "pending"}] \cup
  [kind : {"response"}, statusCode : {200}, body : {"absent", "pending"}] \cup
  [kind : {"response"}, statusCode : {200}, body : {"completed"},
   status : {"test error", "test finished"}, result : Payloads(fw)]

\* A fetch that looks at the body whatever the status.
fetchErrorLenient(r) ==
  IF r.kind = "connect" THEN "Error connecting to api to get test status"
  ELSE IF r.body = "absent" THEN "TypeError"
  ELSE ""

\* Job.prototype.complete, fetch: "" when the response is usable.
fetchError(r) ==
  IF r.kind = "connect" THEN "Error connecting to api to get test status"
  ELSE IF r.statusCode # 200 THEN HttpErrorText
  ELSE IF r.body = "absent" THEN "TypeError"
  ELSE ""

\* An error as the aggregate keeps it: the job and the head of the message.
Brief(err) == [job |-> err.job, msg |-> err.msg]

\* ---------------------------------------------------------------- requests
NoOptions == [k \in {} |-> ""]

\* The extra options a run is configured with: none, a further capability,
\* a key start() sets itself, and the key of the tunnel identifier.
SauceConfigs ==
  {NoOptions, [k \in {"max-duration"} |-> "30"], [k \in {"framework"} |-> "other"],
   [k \in {"tunnel-identifier"} |-> "other"]}

\* _.merge(object, source), for sources whose values are primitive
merge(object, source) ==
  [k \in DOMAIN object \cup DOMAIN source |->
     IF k \in DOMAIN source THEN source[k] ELSE object[k]]

\* object[key] = value
Put(object, key, value) ==
  [k \in DOMAIN object \cup {key} |-> IF k = key THEN value ELSE object[k]]

\* The json of requestParams as start() first builds it.
requiredJson(j) ==
  [k \in {"platforms", "url", "framework", "build", "name"} |->
     CASE k = "platforms" -> <<j.platform>>
       [] k = "url" -> j.url
       [] k = "framework" -> framework
       [] k = "build" -> Build
       [] OTHER -> TestName]

\* The submission request of start().
StartRequest(j) ==
  [kind |-> "request", method |-> "POST", url |-> StartUrl,
   json |-> IF tunneled
            THEN Put(merge(requiredJson(j), sauceConfig), "tunnel-identifier", TunnelId)
            ELSE merge(requiredJson(j), sauceConfig)]

\* A status query that asks for no task in particular.
StatusRequestUnassigned(j) ==
  [kind |-> "request", method |-> "POST", url |-> StatusUrl,
   json |-> [k \in {"js tests"} |-> <<Null>>]]

\* A status query of fetch().
StatusRequest(j) ==
  [kind |-> "request", method |-> "POST", url |-> StatusUrl,
   json |-> [k \in {"js tests"} |-> <<j.taskId>>]]

Response(r) == [kind |-> "response", response |-> r]

\* Q.delay(me.pollInterval)
Delay == [kind |-> "delay", ms |-> pollInterval]

\* The trace tr with the entries added to that of task t.
Log(tr, t, entries) ==
  IF logging THEN [tr EXCEPT ![t] = @ \o entries] ELSE tr

Select(s, kind) == {i \in 1..Len(s) : s[i].kind = kind}

\* The status queries and the delays in the trace s of a job.
Queries(s) == {i \in Select(s, "request") : s[i].url = StatusUrl}
Delays(s) == Select(s, "delay")

\* What the service answers to a status query of task t: in a run that keeps
\* a trace, at most MaxPolls times 'not completed'.
Answerable(t) ==
  IF logging /\ Cardinality(Delays(trace[t])) >= MaxPolls
  THEN {r \in StatusResponses(framework) : fetchError(r) # "" \/ r.body # "pending"}
  ELSE StatusResponses(framework)

\* A removed or misspelt sentinel check: no status counts as an error.
isTestErrorNever(result) == FALSE

isTestError(result) == result.status = "test error"

hasParser(fw) == fw \in Frameworks

\* A registry that defaults: an identifier without a parser gets no verdict
\* and getResult resolves.
getResultDefault(j, fw, r) ==
  IF isTestError(r)
  THEN [job |-> [j EXCEPT !.state = "Errored", !.status = r.status],
        error |-> "Test Error"]
  ELSE [job |-> [j EXCEPT !.id = JobRef(j), !.status = r.status,
                          !.state = "Completed", !.parsed = hasParser(fw),
                          !.passed = IF hasParser(fw) THEN resultParsers(fw, r.result)
                                     ELSE "undefined"],
        error |-> ""]

\* Job.prototype.getResult, the handlers of complete(): the Job after them and
\* the message thrown ("" when getResult resolves).  The call of a parser
\* that is not registered is the call of undefined, a TypeError.
getResult(j, fw, r) ==
  IF isTestError(r)
  THEN [job |-> [j EXCEPT !.state = "Errored", !.status = r.status],
        error |-> "Test Error"]
  ELSE LET j1 == [j EXCEPT !.id = JobRef(j), !.status = r.status]
       IN IF ~hasParser(fw)
          THEN [job |-> [j1 EXCEPT !.state = "Errored"],
                error |-> "TypeError: not a function"]
          ELSE [job |-> [j1 EXCEPT !.state = "Completed", !.parsed = TRUE,
                                   !.passed = resultParsers(fw, r.result)],
                error |-> ""]

\* --------------------------------------------------------------- scheduler
\* An off-by-one in the limit handed to the scheduler.
LimitOneMore == IF throttled # 0 THEN throttled + 1 ELSE NumberMaxValue

\* this.throttled || Number.MAX_VALUE
Limit == IF throttled # 0 THEN throttled ELSE NumberMaxValue

\* The invocations of throttledRunTest, in the order runTests makes them.
Submission ==
  Flatten([u \in 1..Len(urls) |->
            [b \in 1..Len(browsers) |-> <<browsers[b], urls[u]>>]])

\* TestRunner.prototype.runTest up to the submission request: a fresh Job,
\* and start() has issued its request.
runTest(jobs, t) ==
  [jobs EXCEPT ![t] = [NewJob(calls[t][1], calls[t][2]) EXCEPT !.state = "Starting"]]

CanStart == queue # << >> /\ running < Limit

\* A scheduler that takes the newest invocation first.
DequeueLast(q) == [next |-> q[Len(q)], rest |-> SubSeq(q, 1, Len(q) - 1)]

\* The invocation the scheduler starts next, and the queue it leaves.
Dequeue(q) == [next |-> Head(q), rest |-> Tail(q)]

\* A scheduler that frees the slot of a settled invocation and leaves the
\* queue to a later turn.
ReleaseLater(kind) ==
  [queue |-> queue, running |-> running - 1, started |-> {}]

\* A scheduler that releases the slot on success only.
ReleaseOnSuccess(kind) ==
  IF kind # "resolved"
  THEN [queue |-> queue, running |-> running, started |-> {}]
  ELSE IF queue # << >> /\ running - 1 < Limit
  THEN [queue |-> Dequeue(queue).rest, running |-> running,
        started |-> {Dequeue(queue).next}]
  ELSE [queue |-> queue, running |-> running - 1, started |-> {}]

\* The scheduler when an invocation settles, by success or by failure (kind):
\* its slot is freed and the head of the queue, if any, takes it.
Release(kind) ==
  IF queue # << >> /\ running - 1 < Limit
  THEN [queue |-> Dequeue(queue).rest, running |-> running,
        started |-> {Dequeue(queue).next}]
  ELSE [queue |-> queue, running |-> running - 1, started |-> {}]

\* ---------------------------------------------------------------- runTests
\* results.indexOf(false) === -1
Aggregate(array) == Bool("false" \notin Range(array))

\* An aggregation that waits for every handle (Q.allSettled for Q.all).
allRejectedIgnored(a, err) == a

\* Q.all when one of its promises is rejected.
allRejected(a, err) ==
  IF a.state = "pending" THEN [state |-> "rejected", value |-> err] ELSE a

\* An aggregation that is fulfilled by the first fulfilled handle.
allFulfilledByAny(a, s) ==
  IF a.state = "pending" /\ \E t \in DOMAIN s : s[t] = "resolved"
  THEN [state |-> "fulfilled", value |-> "results"]
  ELSE a

\* Q.all when one of its promises is fulfilled; s is the state of the handles.
allFulfilled(a, s) ==
  IF a.state = "pending" /\ \A t \in DOMAIN s : s[t] = "resolved"
  THEN [state |-> "fulfilled", value |-> "results"]
  ELSE a

\* The array Q.all resolves with: the values in the order of its promises.
resultsArray == results

\* The promise of Q.all(promises).then(...) when Q.all is rejected: the
\* handler is skipped and the rejection passed on.
thenRejected(r, a) ==
  IF r.state = "pending" /\ a.state = "rejected"
  THEN [state |-> "rejected", value |-> a.value] ELSE r

\* A runner that stops reporting once its aggregate has failed.
reportProgressUntilFailed(progress) ==
  events' = IF ret.state = "rejected" THEN events ELSE Append(events, progress)

\* reportProgress, with a progress sink configured.
reportProgress(progress) == events' = Append(events, progress)

\* What a hook may write to the passed field of the object it is given.
HookWrites == {"none", "clobbered"}

\* ------------------------------------------------------------------ states
Configs ==
  {c \in [nb : 0..MaxJobs, nu : 0..MaxJobs, fw : FrameworkIds,
          throttled : 0..MaxThrottle, hook : BOOLEAN, sauce : {NoOptions},
          tunneled : {FALSE}, pollInterval : {5}, logging : {FALSE},
          writes : {{"none"}}] :
     c.nb * c.nu <= MaxJobs}

\* The runs that exercise the scheduler's queue: longer bursts, always
\* throttled, one framework.
SchedConfigs ==
  {c \in [nb : 1..MaxBurst, nu : 1..MaxBurst, fw : {"mocha"},
          throttled : 1..MaxThrottle, hook : BOOLEAN, sauce : {NoOptions},
          tunneled : {FALSE}, pollInterval : {5}, logging : {FALSE},
          writes : {{"none"}}] :
     c.nb * c.nu <= MaxBurst}

\* The runs that keep the trace of their jobs: every framework, every extra
\* option, with and without a tunnel.
JobConfigs ==
  [nb : {1}, nu : {1}, fw : FrameworkIds, throttled : {0}, hook : BOOLEAN,
   sauce : SauceConfigs, tunneled : BOOLEAN, pollInterval : {5},
   logging : {TRUE}, writes : {HookWrites}]

InitWith(C) ==
  \E c \in C :
    /\ browsers = Ids(c.nb)
    /\ urls = Ids(c.nu)
    /\ framework = c.fw
    /\ throttled = c.throttled
    /\ onTestComplete = c.hook
    /\ hookWrites = c.writes
    /\ sauceConfig = c.sauce
    /\ tunneled = c.tunneled
    /\ pollInterval = c.pollInterval
    /\ logging = c.logging
    /\ pc = "init"
    /\ calls = << >>
    /\ queue = << >>
    /\ running = 0
    /\ st = [t \in Tasks |-> "idle"]
    /\ results = [t \in Tasks |-> "none"]
    /\ job = [t \in Tasks |-> NoJob]
    /\ startedJobs = 0
    /\ agg = [state |-> "none", value |-> "none"]
    /\ ret = [state |-> "none", value |-> "none"]
    /\ events = << >>
    /\ trace = [t \in Tasks |-> << >>]

\* A callback of a promise is due: it runs before any response, timer or
\* hook callback is delivered.
Microtask ==
  \/ CanStart
  \/ \E t \in Tasks : job[t].state = "Started"
  \/ agg.state = "fulfilled" /\ ret.state = "pending"

NoMicrotask == ~Microtask

\* The handle of task t settles (kind: "resolved" with a verdict, "rejected"
\* with an error) with jobs the Jobs at that point: the scheduler releases
\* the slot and Q.all takes notice; tr is the trace at that point.
Settle(t, kind, v, jobs, tr) ==
  LET rel == Release(kind)
      st1 == [u \in Tasks |-> IF u = t THEN kind
                              ELSE IF u \in rel.started THEN "running"
                              ELSE st[u]]
      agg1 == IF kind = "rejected" THEN allRejected(agg, Brief(v))
              ELSE allFulfilled(agg, st1)
  IN /\ st' = st1
     /\ results' = IF kind = "resolved" THEN [results EXCEPT ![t] = v] ELSE results
     /\ queue' = rel.queue
     /\ running' = rel.running
     /\ job' = [u \in Tasks |-> IF u \in rel.started THEN runTest(jobs, u)[u]
                                ELSE jobs[u]]
     /\ agg' = agg1
     /\ ret' = thenRejected(ret, agg1)
     /\ trace' = IF ~logging THEN tr
                 ELSE [u \in Tasks |->
                         IF u = t THEN tr[u] \o <<[kind |-> kind, value |-> v]>>
                         ELSE IF u \in rel.started
                         THEN tr[u] \o <<StartRequest(runTest(jobs, u)[u])>>
                         ELSE tr[u]]

\* The tail of runTest: jobCompleted is reported and the task resolves with
\* result.passed.
Finish(t, jobs, tr) ==
  /\ reportProgress([type |-> "jobCompleted", url |-> jobs[t].url,
                     platform |-> jobs[t].platform,
                     passed |-> jobs[t].passed])
  /\ Settle(t, "resolved", jobs[t].passed, jobs, tr)

\* ----------------------------------------------------------------- actions
\* runTests: one invocation of the throttled runner per URL and browser, all
\* in one burst, and Q.all over their handles.
RunTests ==
  /\ pc = "init"
  /\ pc' = "called"
  /\ calls' = Submission
  /\ queue' = [i \in 1..Len(Submission) |-> i]
  /\ st' = [t \in Tasks |-> "queued"]
  /\ agg' = IF Submission = << >>
            THEN [state |-> "fulfilled", value |-> "results"]
            ELSE [state |-> "pending", value |-> "none"]
  /\ ret' = [state |-> "pending", value |-> "none"]
  /\ UNCHANGED <<config, running, results, job, startedJobs, events, trace>>

\* The scheduler starts the head of its queue in a free slot.
SchedulerStart ==
  /\ CanStart
  /\ queue' = Dequeue(queue).rest
  /\ running' = running + 1
  /\ st' = [st EXCEPT ![Dequeue(queue).next] = "running"]
  /\ job' = runTest(job, Dequeue(queue).next)
  /\ trace' = Log(trace, Dequeue(queue).next,
                  <<StartRequest(runTest(job, Dequeue(queue).next)[Dequeue(queue).next])>>)
  /\ UNCHANGED <<config, pc, calls, results, startedJobs, agg, ret, events>>

\* The service answers the submission request of task t.
StartResponse(t) ==
  /\ job[t].state = "Starting"
  /\ NoMicrotask
  /\ UNCHANGED <<config, pc, calls, startedJobs, events>>
  /\ \E r \in StartResponses :
     IF startError(r) = ""
     THEN /\ job' = [job EXCEPT ![t].state = "Started",
                               ![t].taskId = TaskRef(job[t])]
          /\ trace' = Log(trace, t, <<Response(r)>>)
          /\ UNCHANGED <<queue, running, st, results, agg, ret>>
     ELSE Settle(t, "rejected", HttpError(t, startError(r), "POST", StartUrl, r),
                 [job EXCEPT ![t].state = "Errored"],
                 Log(trace, t, <<Response(r)>>))

\* A runTest that reports the counter before it counts the job.
JobStartedStale(t) ==
  /\ job[t].state = "Started"
  /\ startedJobs' = startedJobs + 1
  /\ reportProgress([type |-> "jobStarted", numberOfJobs |-> numberOfJobs,
                     startedJobs |-> startedJobs])
  /\ job' = [job EXCEPT ![t].state = "Polling"]
  /\ trace' = Log(trace, t, <<StatusRequest(job[t])>>)
  /\ UNCHANGED <<config, pc, calls, queue, running, st, results, agg, ret>>

\* runTest after start(): the job is counted and reported, getResult() issues
\* the first status query.
JobStarted(t) ==
  /\ job[t].state = "Started"
  /\ startedJobs' = startedJobs + 1
  /\ reportProgress([type |-> "jobStarted", numberOfJobs |-> numberOfJobs,
                     startedJobs |-> startedJobs + 1])
  /\ job' = [job EXCEPT ![t].state = "Polling"]
  /\ trace' = Log(trace, t, <<StatusRequest(job[t])>>)
  /\ UNCHANGED <<config, pc, calls, queue, running, st, results, agg, ret>>

\* The service answers a status query of task t.
StatusResponse(t) ==
  /\ job[t].state = "Polling"
  /\ NoMicrotask
  /\ UNCHANGED <<config, pc, calls, startedJobs>>
  /\ \E r \in Answerable(t) :
     LET tr == Log(trace, t, <<Response(r)>>)
     IN IF fetchError(r) # ""
        THEN /\ Settle(t, "rejected", HttpError(t, fetchError(r), "POST", StatusUrl, r),
                       [job EXCEPT ![t].state = "Errored"], tr)
             /\ UNCHANGED events
        ELSE IF r.body = "pending"
        THEN /\ job' = [job EXCEPT ![t].state = "Waiting"]
             /\ trace' = Log(tr, t, <<Delay>>)
             /\ UNCHANGED <<queue, running, st, results, agg, ret, events>>
        ELSE LET g == getResult(job[t], framework, r)
                 jobs == [job EXCEPT ![t] = g.job]
             IN IF g.error # ""
                THEN /\ Settle(t, "rejected", Error(t, g.error), jobs, tr)
                     /\ UNCHANGED events
                ELSE IF onTestComplete
                THEN /\ job' = [jobs EXCEPT ![t].hooking = TRUE]
                     /\ trace' = tr
                     /\ UNCHANGED <<queue, running, st, results, agg, ret, events>>
                ELSE Finish(t, jobs, tr)

\* A poll loop with a maximum number of attempts.
PollTimerGiveUp(t) ==
  /\ job[t].state = "Waiting"
  /\ NoMicrotask
  /\ UNCHANGED <<config, pc, calls, startedJobs, events>>
  /\ IF Cardinality(Delays(trace[t])) < MaxPolls
     THEN /\ job' = [job EXCEPT ![t].state = "Polling"]
          /\ trace' = Log(trace, t, <<StatusRequest(job[t])>>)
          /\ UNCHANGED <<queue, running, st, results, agg, ret>>
     ELSE Settle(t, "rejected", Error(t, "gave up"),
                 [job EXCEPT ![t].state = "Errored"], trace)

\* A poll loop that is cancelled when runTests has rejected.
PollTimerCancelled(t) ==
  /\ job[t].state = "Waiting"
  /\ NoMicrotask
  /\ ret.state # "rejected"
  /\ job' = [job EXCEPT ![t].state = "Polling"]
  /\ trace' = Log(trace, t, <<StatusRequest(job[t])>>)
  /\ UNCHANGED <<config, pc, calls, queue, running, st, results, startedJobs, agg, ret, events>>

\* Q.delay(pollInterval) elapses: the next status query is issued.
PollTimer(t) ==
  /\ job[t].state = "Waiting"
  /\ NoMicrotask
  /\ job' = [job EXCEPT ![t].state = "Polling"]
  /\ trace' = Log(trace, t, <<StatusRequest(job[t])>>)
  /\ UNCHANGED <<config, pc, calls, queue, running, st, results, startedJobs, agg, ret, events>>

HookResults == {"error", "undefined", "null", "true", "false"}

\* A hand-over of the result itself to the hook.
cloneByReference(result) == [value |-> result, shared |-> TRUE]

\* _.clone(result, true): a deep copy, which shares nothing with result
clone(result) == [value |-> result, shared |-> FALSE]

\* result after the hook wrote w to the passed field of its argument arg
written(result, arg, w) ==
  IF arg.shared /\ w # "none" THEN [result EXCEPT !.passed = w] ELSE result

\* The handler of the hook's value: result.passed = !!passed, unless the value
\* is undefined.
override(result, passed) ==
  IF passed # "undefined" THEN [result EXCEPT !.passed = Bool(Truthy(passed))]
  ELSE result

\* The hook calls back, with an error or with its verdict, after it may have
\* written to the object it was given.
HookCallback(t) ==
  /\ job[t].hooking
  /\ NoMicrotask
  /\ UNCHANGED <<config, pc, calls, startedJobs>>
  /\ \E r \in HookResults, w \in hookWrites :
     LET result == [written(job[t], clone(job[t]), w) EXCEPT !.hooking = FALSE]
         tr == Log(trace, t, <<[kind |-> "hook", wrote |-> w, returned |-> r]>>)
     IN IF r = "error"
        THEN /\ Settle(t, "rejected", Error(t, "hook"), [job EXCEPT ![t] = result], tr)
             /\ UNCHANGED events
        ELSE Finish(t, [job EXCEPT ![t] = override(result, r)], tr)

\* A handler that resolves with the aggregate and forgets to report it.
AllThenSilent ==
  /\ agg.state = "fulfilled"
  /\ ret.state = "pending"
  /\ ret' = [state |-> "resolved", value |-> Aggregate(resultsArray)]
  /\ UNCHANGED <<config, pc, calls, queue, running, st, results, job, startedJobs,
                 agg, events, trace>>

\* The handler runTests attached to Q.all: the aggregate is computed and
\* reported, and the promise runTests returned resolves with it.
AllThen ==
  /\ agg.state = "fulfilled"
  /\ ret.state = "pending"
  /\ reportProgress([type |-> "testCompleted", passed |-> Aggregate(resultsArray)])
  /\ ret' = [state |-> "resolved", value |-> Aggregate(resultsArray)]
  /\ UNCHANGED <<config, pc, calls, queue, running, st, results, job, startedJobs,
                 agg, trace>>

Next ==
  \/ RunTests
  \/ SchedulerStart
  \/ \E t \in Tasks : StartResponse(t)
  \/ \E t \in Tasks : JobStarted(t)
  \/ \E t \in Tasks : StatusResponse(t)
  \/ \E t \in Tasks : PollTimer(t)
  \/ \E t \in Tasks : HookCallback(t)
  \/ AllThen

Init == InitWith(Configs)

InitSched == InitWith(SchedConfigs)

InitJob == InitWith(JobConfigs)

Spec == Init /\ [][Next]_vars

SpecSched == InitSched /\ [][Next]_vars

SpecJob == InitJob /\ [][Next]_vars

\* ------------------------------------------------------------------ claims
Settled(t) == st[t] \in {"resolved", "rejected"}

\* The invocations of runTest the scheduler has started and that have not
\* settled.
InFlight == {t \in Tasks : job[t].state # "None" /\ ~Settled(t)}

Count(type) == Cardinality({i \in 1..Len(events) : events[i].type = type})

\* C1: with a throttle limit N >= 1, the number of runTest invocations that
\* have been started and have not settled is at most N in every state,
\* however many tasks runTests submitted.
C1_BoundedInFlight == throttled >= 1 => Cardinality(InFlight) <= throttled

\* the limit is reached while a task waits in the queue
C1_Witness ==
  /\ throttled = 2
  /\ Cardinality(InFlight) = 2
  /\ queue # << >>

\* C2: a job whose handle rejects while the aggregate is pending makes the
\* promise of runTests reject with that job's error in the same step, also
\* when other jobs are in flight, and a run in which a job rejected never
\* resolves with an aggregate.
C2_RejectsAtFirstFailure ==
  /\ [](\A t \in 1..MaxJobs : (t \in Tasks /\ st[t] = "rejected") => ret.state = "rejected")
  /\ [][\A t \in Tasks :
         (st[t] = "running" /\ st'[t] = "rejected" /\ ret.state = "pending")
           => /\ ret'.state = "rejected"
              /\ ret'.value.job = t
              /\ job'[t].state = "Errored" \/ ret'.value.msg = "hook"]_vars

\* with every task started at once, runTests has rejected with the remote
\* test error of one job while another job is still polling
C2_Witness ==
  /\ throttled = 0
  /\ ret.state = "rejected"
  /\ ret.value.msg = "Test Error"
  /\ \E t \in Tasks : t # ret.value.job /\ job[t].state = "Polling"

\* C3 as claimed: once runTests has rejected, no further progress event is
\* reported.
C3_Claim_NoEventAfterReject == [][ret.state = "rejected" => events' = events]_vars

\* C3 as amended: once runTests has rejected, the jobs still in flight keep
\* running and each of their jobStarted and jobCompleted events is still
\* reported; testCompleted is not.
C3_OrphansStillReport ==
  /\ [][\A t \in Tasks :
         /\ (job[t].state = "Started" /\ job'[t].state = "Polling")
              => /\ Len(events') = Len(events) + 1
                 /\ events'[Len(events')].type = "jobStarted"
         /\ (st[t] = "running" /\ st'[t] = "resolved")
              => /\ Len(events') = Len(events) + 1
                 /\ events'[Len(events')].type = "jobCompleted"
                 /\ events'[Len(events')].url = job[t].url
                 /\ events'[Len(events')].platform = job[t].platform]_vars
  /\ [](ret.state = "rejected" => Count("testCompleted") = 0)

\* with every task started at once, runTests has rejected and a sibling that
\* was in flight is about to report jobStarted
C3_Witness ==
  /\ throttled = 0
  /\ ret.state = "rejected"
  /\ \E t \in Tasks : job[t].state = "Started"

AllSettled == pc = "called" /\ \A t \in Tasks : Settled(t)

\* C4 as claimed: when a run is over, by every task settling normally or by
\* a job failure, testCompleted has been reported exactly once.
C4_Claim_ExactlyOnceAlways ==
  (AllSettled /\ ret.state \in {"resolved", "rejected"}) => Count("testCompleted") = 1

\* C4 as amended: testCompleted is reported exactly once in a run in which
\* every task settles normally, at the moment runTests resolves, and never
\* in a run cut short by a job failure; it is never reported twice.
C4_OnceIffResolved ==
  /\ Count("testCompleted") = (IF ret.state = "resolved" THEN 1 ELSE 0)
  /\ (AllSettled /\ ~Microtask /\ \A t \in Tasks : st[t] = "resolved")
       => ret.state = "resolved"
  /\ (\E t \in Tasks : st[t] = "rejected") => ret.state = "rejected"

\* two jobs settled normally and the aggregate was reported
C4_Witness ==
  /\ numberOfJobs = 2
  /\ ret.state = "resolved"
  /\ Count("testCompleted") = 1

\* C5: a testCompleted event is the last event reported; the jobStarted and
\* the jobCompleted event of every job precede it, and its passed field is the
\* value runTests resolves with.
C5_TestCompletedLast ==
  \A i \in 1..Len(events) :
    events[i].type = "testCompleted" =>
      /\ i = Len(events)
      /\ ret.state = "resolved"
      /\ events[i].passed = ret.value
      /\ Cardinality({k \in 1..(i - 1) : events[k].type = "jobStarted"}) = numberOfJobs
      /\ \A t \in Tasks :
           \E k \in 1..(i - 1) :
             /\ events[k].type = "jobCompleted"
             /\ events[k].url = job[t].url
             /\ events[k].platform = job[t].platform

\* two jobs reported their start and completion, then the aggregate
C5_Witness ==
  /\ numberOfJobs = 2
  /\ Len(events) = 5
  /\ events[5].type = "testCompleted"

\* C6 as claimed: runTests resolves with true iff every job's verdict is
\* true, and with false iff some verdict is not true.
C6_Claim_AggregateIffAllTrue ==
  ret.state = "resolved" =>
    /\ ret.value = "true" <=> \A t \in Tasks : results[t] = "true"
    /\ ret.value = "false" <=> \E t \in Tasks : results[t] # "true"

\* The task of invocation i was submitted before that of j: for each URL in
\* order, each browser in order.
SubmittedBefore(i, j) ==
  \/ calls[i][2] < calls[j][2]
  \/ calls[i][2] = calls[j][2] /\ calls[i][1] < calls[j][1]

HasStarted(t) == job[t].state # "None"

\* C7: a task never starts before a task that runTests submitted earlier
\* (URLs in order, browsers in order within a URL).
C7_FifoStart ==
  pc = "called" =>
    \A i, j \in Tasks : (SubmittedBefore(i, j) /\ HasStarted(j)) => HasStarted(i)

\* a task that had to queue has started after a later task settled while an
\* earlier one is still running: completion is out of submission order
C7_Witness ==
  /\ numberOfJobs = 3
  /\ throttled = 2
  /\ st[1] = "running"
  /\ Settled(2)
  /\ HasStarted(3)

\* C8: the step in which an in-flight task settles, by success or failure and
\* also after runTests has rejected, starts exactly the head of the queue in
\* the freed slot when a task is queued and frees exactly one slot otherwise,
\* and leaves every other task as it was.
C8_SettleFreesOneSlot ==
  [][\A t \in Tasks :
       (st[t] = "running" /\ Settled(t)') =>
         /\ IF queue # << >>
            THEN /\ queue' = Tail(queue)
                 /\ st'[Head(queue)] = "running"
                 /\ job'[Head(queue)].state = "Starting"
                 /\ Cardinality(InFlight') = Cardinality(InFlight)
                 /\ running' = running
            ELSE /\ queue' = queue
                 /\ Cardinality(InFlight') = Cardinality(InFlight) - 1
                 /\ running' = running - 1
         /\ \A u \in Tasks \ {t} :
              (queue = << >> \/ u # Head(queue)) => (st'[u] = st[u] /\ job'[u] = job[u])]_vars

\* after runTests rejected with the first task's error, the second task has
\* settled too and the third, queued behind both, has been started
C8_Witness ==
  /\ numberOfJobs = 3
  /\ throttled = 1
  /\ ret.state = "rejected"
  /\ ret.value.job = 1
  /\ Settled(2)
  /\ HasStarted(3)

\* The promise callbacks: Q runs them as soon as they are due.
MicrotaskStep == SchedulerStart \/ AllThen \/ \E t \in Tasks : JobStarted(t)

\* A poll delay elapses.
TimerStep(t) == t \in Tasks /\ PollTimer(t)

\* The step in which task t settles.
SettleStep(t) == t \in Tasks /\ Next /\ st[t] = "running" /\ Settled(t)'

Submitted == pc = "called"

AllStarted == pc = "called" /\ \A t \in Tasks : HasStarted(t)

\* The throttled runs in which promise callbacks run when due, timers fire,
\* and every task that starts eventually settles.
SpecSchedFair ==
  /\ InitSched
  /\ [][Next]_vars
  /\ WF_vars(RunTests)
  /\ WF_vars(MicrotaskStep)
  /\ \A t \in 1..MaxBurst : WF_vars(TimerStep(t)) /\ SF_vars(SettleStep(t))

\* C9: when every started task eventually settles, every task submitted
\* through the throttled runner eventually starts; each task in flight holds
\* one slot until it settles, and a queued task starts only in a free slot or
\* in the slot of a task that settles in the same step.
C9_NoStarvation ==
  /\ Submitted ~> AllStarted
  /\ [](running = Cardinality(InFlight))
  /\ [][\A t \in Tasks :
         (st[t] = "queued" /\ st'[t] = "running") =>
           \/ running < Limit
           \/ \E u \in Tasks : st[u] = "running" /\ Settled(u)']_vars

\* three tasks went through one slot, the first of them failing
C9_Witness ==
  /\ numberOfJobs = 3
  /\ throttled = 1
  /\ st[1] = "rejected"
  /\ \A t \in Tasks : Settled(t)

\* C10: a job whose completed status response carries the status 'test
\* error' is rejected: no evaluator is applied, no verdict is produced or
\* reported, and no job reference is retained.
C10_TestErrorRejects ==
  \A t \in Tasks :
    job[t].status = "test error" =>
      /\ st[t] = "rejected"
      /\ job[t].state = "Errored"
      /\ ~job[t].parsed
      /\ job[t].passed = "none"
      /\ job[t].id = Null
      /\ results[t] = "none"
      /\ \A i \in 1..Len(events) :
           events[i].type = "jobCompleted" =>
             (events[i].url # job[t].url \/ events[i].platform # job[t].platform)

\* a started job was answered with a completed response of status 'test
\* error' and runTests rejected with its error
C10_Witness ==
  \E t \in Tasks :
    /\ job[t].status = "test error"
    /\ job[t].taskId # Null
    /\ ret.state = "rejected"
    /\ ret.value = Error(t, "Test Error")

\* ------------------------------------------------------- claims on the Job
Last(s) == s[Len(s)]

Responses(t) == {trace[t][i].response : i \in Select(trace[t], "response")}

\* A usable status response that reports the task completed.
IsCompleted(r) == r.kind = "response" /\ r.statusCode = 200 /\ r.body = "completed"

\* The job of task t was answered completed without the error sentinel: its
\* result is up for evaluation.
Evaluated(t) == \E r \in Responses(t) : IsCompleted(r) /\ r.status # "test error"

\* The jobCompleted events of the job of task t.
JobCompletedOf(t) ==
  {i \in 1..Len(events) :
     /\ events[i].type = "jobCompleted"
     /\ events[i].url = job[t].url
     /\ events[i].platform = job[t].platform}

NoJobCompleted(t) == JobCompletedOf(t) = {}

Required == {"platforms", "url", "framework", "build", "name"}

\* C12 as claimed: whatever the extra options, the json of the submission
\* request carries the platforms, url, framework, build and name of the Job,
\* the extra options only add keys, and the tunnel identifier is there if and
\* only if the job is tunneled.
C12_Claim_RequiredFieldsKept ==
  \A t \in Tasks :
    trace[t] # << >> =>
      LET json == trace[t][1].json
      IN /\ trace[t][1].url = StartUrl
         /\ \A k \in Required : k \in DOMAIN json /\ json[k] = requiredJson(job[t])[k]
         /\ DOMAIN sauceConfig \subseteq DOMAIN json
         /\ "tunnel-identifier" \in DOMAIN json <=> tunneled
         /\ tunneled => json["tunnel-identifier"] = TunnelId

\* The verdict of the parser for the response that reported task t completed.
Verdict(t) ==
  LET r == CHOOSE r \in Responses(t) : IsCompleted(r)
  IN resultParsers(framework, r.result)

\* C13: with a hook configured, a task whose hook returned a value other
\* than undefined resolves with that value coerced to a boolean, and one
\* whose hook returned undefined resolves with the verdict of the parser; the
\* verdict is also the one reported in jobCompleted; what the hook wrote to
\* the object it was given has no effect on either; a task whose hook failed
\* is rejected with the hook's error and reports no jobCompleted.
C13_HookOverrides ==
  \A t \in Tasks :
    \A i \in Select(trace[t], "hook") :
      LET hook == trace[t][i]
          settled == trace[t][i + 1]
      IN /\ onTestComplete
         /\ i + 1 = Len(trace[t])
         /\ IF hook.returned = "error"
            THEN /\ settled = [kind |-> "rejected", value |-> Error(t, "hook")]
                 /\ st[t] = "rejected"
                 /\ results[t] = "none"
                 /\ job[t].passed = Verdict(t)
                 /\ NoJobCompleted(t)
            ELSE /\ settled.kind = "resolved"
                 /\ settled.value = IF hook.returned = "undefined" THEN Verdict(t)
                                    ELSE Bool(hook.returned = "true")
                 /\ results[t] = settled.value
                 /\ job[t].passed = settled.value
                 /\ \E k \in 1..Len(events) :
                      /\ JobCompletedOf(t) = {k}
                      /\ events[k].passed = settled.value

\* the parser's verdict was true, the hook wrote to its copy and returned
\* null: the task resolved with false
C13_Witness ==
  \E t \in Tasks :
    /\ st[t] = "resolved"
    /\ \E i \in Select(trace[t], "hook") :
         trace[t][i].wrote = "clobbered" /\ trace[t][i].returned = "null"
    /\ Verdict(t) = "true"
    /\ results[t] = "false"

\* The raw result in the response that reported task t completed.
RawResult(t) == (CHOOSE r \in Responses(t) : IsCompleted(r)).result

\* The raw results of the shape a framework reports.
InShape(fw, result) == fw = "jasmine" => result.passed \in {"true", "false"}

\* The condition under which a raw result counts as passed.
Passes(fw, result) ==
  CASE fw = "jasmine" -> result.passed = "true"
    [] fw \in {"qunit", "YUI Test"} -> result.passed = result.total
    [] fw = "mocha" -> result.failures = 0
    [] fw = "custom" -> result.failed = 0

\* C14: the verdict a registered parser gives for a raw result of its shape
\* is the boolean true when the pass condition of its framework holds and the
\* boolean false when it does not (observed before any hook replaces it).
C14_ParsersDecide ==
  \A t \in Tasks :
    (job[t].parsed /\ (job[t].hooking \/ ~onTestComplete)
       /\ InShape(framework, RawResult(t)))
      => /\ job[t].passed \in {"true", "false"}
         /\ job[t].passed = "true" <=> Passes(framework, RawResult(t))

\* a YUI Test result with fewer passed than total was given the verdict false
C14_Witness ==
  /\ framework = "YUI Test"
  /\ \E t \in Tasks :
       /\ job[t].parsed
       /\ job[t].hooking
       /\ RawResult(t) = [passed |-> 0, total |-> 1]
       /\ job[t].passed = "false"

\* The submission of task t has been answered: its trace holds the request
\* and the response.
StartAnswered(t) == Len(trace[t]) >= 2

\* A response start() accepts: the transport succeeded, the status is 200 and
\* at least one task reference came back.
Accepted(r) == r.kind = "response" /\ r.statusCode = 200 /\ r.body = "js tests"

\* C15 as claimed: start() resolves, with taskId the first reference of the
\* response, exactly for an accepted response; for every other response it
\* rejects at once, taskId stays null and no status query follows; and the
\* error for a status other than 200 is the composed message with the
\* method, the URL, the status code and the body, whatever the body.
C15_Claim_StartResolvesIffAccepted ==
  \A t \in Tasks :
    StartAnswered(t) =>
      LET r == trace[t][2].response
      IN IF Accepted(r)
         THEN /\ job[t].taskId = TaskRef(job[t])
              /\ job[t].state # "Starting"
              /\ Len(trace[t]) >= 3 => trace[t][3] = StatusRequest(job[t])
         ELSE /\ job[t].taskId = Null
              /\ job[t].state = "Errored"
              /\ st[t] = "rejected"
              /\ Len(trace[t]) = 3
              /\ trace[t][3].kind = "rejected"
              /\ (r.kind = "response" /\ r.statusCode # 200) =>
                   trace[t][3].value =
                     [job |-> t, msg |-> HttpErrorText,
                      text |-> composeHttpErrorMessage("POST", StartUrl, r, r.body)]

\* The answers to the status queries of task t, as positions of its trace.
StatusAnswers(t) == {i \in Select(trace[t], "response") : i > 2}

\* A usable answer that does not report the task completed.
NotCompleted(r) == fetchError(r) = "" /\ r.body = "pending"

\* The 'not completed' answers task t got.
Pending(t) == {i \in StatusAnswers(t) : NotCompleted(trace[t][i].response)}

RECURSIVE Waited(_)
\* The time the delays of a trace add up to.
Waited(s) ==
  IF s = << >> THEN 0
  ELSE Waited(Tail(s)) + (IF Head(s).kind = "delay" THEN Head(s).ms ELSE 0)

\* The poll loop of task t so far: every 'not completed' answer is followed
\* by one delay of pollInterval and that by one status query for the task
\* reference; a job that waits for an answer has issued one query more than
\* it got such answers; and the answer that reports the task completed is
\* the last one, after which nothing is asked, and it is the answer whose
\* status and result the job takes.
PollLoop(t) ==
  LET s == trace[t]
      k == Cardinality(Pending(t))
      q == Cardinality(Queries(s))
  IN /\ Cardinality(Delays(s)) = k
     /\ Waited(s) = k * pollInterval
     /\ \A i \in Pending(t) : i + 1 \in Delays(s)
     /\ \A i \in Delays(s) :
          /\ s[i].ms = pollInterval
          /\ i - 1 \in Pending(t)
          /\ i < Len(s) => i + 1 \in Queries(s)
     /\ \A i \in Queries(s) :
          /\ s[i] = StatusRequest(job[t])
          /\ i < Len(s) => i + 1 \in StatusAnswers(t)
     /\ job[t].state = "Polling" => (q = k + 1 /\ Len(s) \in Queries(s))
     /\ job[t].state = "Waiting" => (q = k /\ Len(s) \in Delays(s))
     /\ \A i \in StatusAnswers(t) :
          IsCompleted(s[i].response) =>
            /\ q = k + 1
            /\ \A n \in Queries(s) \cup StatusAnswers(t) \cup Delays(s) : n <= i
            /\ job[t].status = s[i].response.status
            /\ (job[t].parsed /\ (job[t].hooking \/ ~onTestComplete))
                 => job[t].passed = resultParsers(framework, s[i].response.result)
            /\ (st[t] = "resolved" /\ ~onTestComplete)
                 => results[t] = resultParsers(framework, s[i].response.result)

\* C16: a job that is answered 'not completed' k times and then 'completed'
\* issues exactly k + 1 status queries, with one delay of pollInterval after
\* each of the k answers, and takes the result of the answer k + 1; it leaves
\* the loop only on an answer that is an error or reports completion, however
\* many times it has polled, and a delay is always followed by a query.
C16_PollsUntilCompleted ==
  /\ [](\A t \in 1..MaxJobs : t \in Tasks => PollLoop(t))
  /\ [][\A t \in Tasks :
         /\ (job[t].state \in {"Polling", "Waiting"}
               /\ job'[t].state \notin {"Polling", "Waiting"})
              => /\ job[t].state = "Polling"
                 /\ Len(trace'[t]) > Len(trace[t])
                 /\ trace'[t][Len(trace[t]) + 1].kind = "response"
                 /\ ~NotCompleted(trace'[t][Len(trace[t]) + 1].response)
         /\ (job[t].state = "Waiting" /\ job'[t] # job[t])
              => /\ job'[t].state = "Polling"
                 /\ trace'[t] = Append(trace[t], StatusRequest(job[t]))]_vars

\* a job was answered 'not completed' twice and then completed: it asked
\* three times, waited twice, and resolved with the verdict of the third
\* answer
C16_Witness ==
  \E t \in Tasks :
    /\ Cardinality(Pending(t)) = 2
    /\ Cardinality(Queries(trace[t])) = 3
    /\ Waited(trace[t]) = 2 * pollInterval
    /\ st[t] = "resolved"
    /\ results[t] = "false"

\* An answer to a status query that is a transport failure or carries a
\* status other than 200.
Failure(r) == r.kind = "connect" \/ r.statusCode # 200

\* C17: a status query of a job that ends in a transport failure or in a
\* status other than 200, be it the first query or one after any number of
\* 'not completed' answers, is the last thing the job does: its handle is
\* rejected with the error of that answer in the same step, and no status
\* query and no delay follows; the job has no verdict and reports no
\* jobCompleted.
C17_QueryFailureIsFinal ==
  \A t \in Tasks :
    \A i \in StatusAnswers(t) :
      Failure(trace[t][i].response) =>
        /\ Len(trace[t]) = i + 1
        /\ trace[t][i + 1] =
             [kind |-> "rejected",
              value |-> HttpError(t, fetchError(trace[t][i].response), "POST",
                                  StatusUrl, trace[t][i].response)]
        /\ trace[t][i + 1].value.msg \in
             {"Error connecting to api to get test status", HttpErrorText}
        /\ job[t].state = "Errored"
        /\ st[t] = "rejected"
        /\ ret.state = "rejected"
        /\ results[t] = "none"
        /\ job[t].passed = "none"
        /\ NoJobCompleted(t)

\* the third status query of a job, after two 'not completed' answers, was
\* answered with the status 500 and the job was rejected
C17_Witness ==
  \E t \in Tasks :
    /\ Cardinality(Pending(t)) = 2
    /\ st[t] = "rejected"
    /\ \E i \in StatusAnswers(t) :
         /\ trace[t][i].response.kind = "response"
         /\ trace[t][i].response.statusCode = 500

\* The place of a state in the lifecycle of a Job; the delay between two
\* status queries is part of Polling.
Rank(state) ==
  CASE state = "None" -> 0
    [] state = "Created" -> 1
    [] state = "Starting" -> 2
    [] state = "Started" -> 3
    [] state \in {"Polling", "Waiting"} -> 4
    [] state \in {"Completed", "Errored"} -> 5

Terminal(t) == job[t].state \in {"Completed", "Errored"}

Requests(s) == Select(s, "request")

Settlements(s) == Select(s, "resolved") \cup Select(s, "rejected")

\* The requests of task t that have not been answered.
Outstanding(t) ==
  Cardinality(Requests(trace[t])) - Cardinality(Select(trace[t], "response"))

\* The trace of task t is that of one pass through the lifecycle: first the
\* submission, then, only if it was accepted, status queries for the task
\* reference it assigned; a request is issued only when the one before has
\* been answered; the handle settles at most once, and a job that is
\* Completed or Errored has nothing outstanding.
OnePass(t) ==
  LET s == trace[t]
  IN /\ job[t].state = "None" <=> s = << >>
     /\ s # << >> => (s[1] = StartRequest(job[t]) /\ s[1].url = StartUrl)
     /\ \A i \in Requests(s) :
          /\ i > 1 => /\ i \in Queries(s)
                      /\ Accepted(s[2].response)
                      /\ job[t].taskId = TaskRef(job[t])
                      /\ s[i].json["js tests"] = <<job[t].taskId>>
                      /\ s[i - 1].kind \in {"response", "delay"}
          /\ i < Len(s) => s[i + 1].kind = "response"
     /\ Outstanding(t) = (IF job[t].state \in {"Starting", "Polling"} THEN 1 ELSE 0)
     /\ Cardinality(Settlements(s)) <= 1
     /\ \A i \in Settlements(s) : i = Len(s) /\ Settled(t) /\ s[i].kind = st[t]
     /\ Settled(t) => Settlements(s) # {}
     /\ Terminal(t) => (Outstanding(t) = 0 /\ (Settled(t) \/ job[t].hooking))
     /\ (Settled(t) /\ job[t].state # "None") => Terminal(t)

\* C18: a Job moves forward only, from Created over Starting, Started and
\* Polling to Completed or Errored, one state at a time except that a failure
\* takes it to Errored; its submission comes before its status queries, which
\* are issued only after an accepted submission and carry the task reference;
\* it has at most one request outstanding; and once it is Completed or
\* Errored its state stays, it issues no further request or delay and its
\* handle, once settled, stays as it settled.
C18_LifecycleMonotonic ==
  /\ [](\A t \in 1..MaxJobs : t \in Tasks => OnePass(t))
  /\ [][\A t \in Tasks :
         /\ Rank(job'[t].state) >= Rank(job[t].state)
         /\ Rank(job'[t].state) > Rank(job[t].state) =>
              \/ Rank(job'[t].state) = Rank(job[t].state) + 1
              \/ job[t].state = "None" /\ job'[t].state = "Starting"
              \/ job'[t].state = "Errored"
         /\ Terminal(t) =>
              /\ job'[t].state = job[t].state
              /\ Requests(trace'[t]) = Requests(trace[t])
              /\ Delays(trace'[t]) = Delays(trace[t])
         /\ Settled(t) => (st'[t] = st[t] /\ trace'[t] = trace[t] /\ job'[t] = job[t])]_vars

\* a job went through every state: it was started, polled twice, completed,
\* and its handle resolved after the hook was heard
C18_Witness ==
  \E t \in Tasks :
    /\ job[t].state = "Completed"
    /\ st[t] = "resolved"
    /\ Cardinality(Queries(trace[t])) = 2
    /\ Select(trace[t], "hook") # {}

\* The jobs whose start() resolved and whose runTest went on to report it.
Reported == {t \in Tasks : job[t].taskId # Null /\ job[t].state # "Started"}

\* The progress a step reports, if it reports any.
Emits(type) ==
  /\ Len(events') = Len(events) + 1
  /\ events'[Len(events')].type = type

\* C19: the k-th jobStarted event carries startedJobs = k and the total
\* browsers x URLs; the counter equals the number of jobs whose start()
\* resolved and never exceeds that total; a job whose start() rejected
\* reports nothing; a job reports jobStarted once, when it leaves Started,
\* and jobCompleted at most once, when its handle resolves, after its
\* jobStarted; whatever the order in which the jobs proceed.
C19_StartedJobsCounts ==
  /\ [](/\ startedJobs <= numberOfJobs
        /\ startedJobs = Count("jobStarted")
        /\ startedJobs = Cardinality(Reported)
        /\ \A i \in 1..Len(events) :
             events[i].type = "jobStarted" =>
               /\ events[i].startedJobs =
                    Cardinality({k \in 1..i : events[k].type = "jobStarted"})
               /\ events[i].numberOfJobs = numberOfJobs
        /\ \A t \in 1..MaxJobs :
             t \in Tasks =>
               /\ Cardinality(JobCompletedOf(t)) = (IF st[t] = "resolved" THEN 1 ELSE 0)
               /\ JobCompletedOf(t) # {} => t \in Reported
               /\ (st[t] = "rejected" /\ job[t].taskId = Null) =>
                    (t \notin Reported /\ NoJobCompleted(t)))
  /\ [][/\ Emits("jobStarted") =>
            \E t \in Tasks :
              /\ job[t].state = "Started" /\ job'[t].state = "Polling"
              /\ Reported' = Reported \cup {t}
              /\ t \notin Reported
              /\ NoJobCompleted(t)
              /\ events'[Len(events')].startedJobs = startedJobs + 1
        /\ Emits("jobCompleted") =>
            \E t \in Tasks :
              /\ st[t] = "running" /\ st'[t] = "resolved"
              /\ t \in Reported
              /\ NoJobCompleted(t)
              /\ JobCompletedOf(t)' = {Len(events')}
        /\ (\E t \in Tasks : job[t].state = "Started" /\ job'[t].state # "Started")
             => Emits("jobStarted")]_vars

\* of two jobs started together, one was rejected by start() and reported
\* nothing; the other went on and reported jobStarted with startedJobs 1 and
\* jobCompleted
C19_Witness ==
  /\ numberOfJobs = 2
  /\ \E t \in Tasks : st[t] = "rejected" /\ job[t].taskId = Null
  /\ \E t \in Tasks : st[t] = "resolved"
  /\ Len(events) = 2
  /\ events[1].type = "jobStarted"
  /\ events[1].startedJobs = 1
  /\ events[2].type = "jobCompleted"

\* The service answers the submission and the status queries of task t.
StartAnswer(t) == t \in Tasks /\ StartResponse(t)
StatusAnswer(t) == t \in Tasks /\ StatusResponse(t)

\* The service answers a status query of task t with 'completed' or with an
\* error.
FinalAnswer(t) == t \in Tasks /\ StatusResponse(t) /\ Terminal(t)'

\* The hook of task t calls back.
HookStep(t) == t \in Tasks /\ HookCallback(t)

\* The unthrottled runs of one framework, in which jobs poll without bound.
LiveConfigs ==
  [nb : 1..MaxJobs, nu : {1}, fw : {"mocha"}, throttled : {0}, hook : BOOLEAN,
   sauce : {NoOptions}, tunneled : {FALSE}, pollInterval : {5},
   logging : {FALSE}, writes : {{"none"}}]

InitLive == InitWith(LiveConfigs)

\* The runs in which promise callbacks run when due, timers fire, the hook
\* calls back, and the service answers every request and in the end answers
\* every polled task with 'completed' or an error.
SpecLive ==
  /\ InitLive
  /\ [][Next]_vars
  /\ WF_vars(RunTests)
  /\ WF_vars(MicrotaskStep)
  /\ \A t \in 1..MaxJobs :
       /\ WF_vars(StartAnswer(t))
       /\ WF_vars(StatusAnswer(t))
       /\ SF_vars(FinalAnswer(t))
       /\ WF_vars(TimerStep(t))
       /\ WF_vars(HookStep(t))

RunSettled == ret.state \in {"resolved", "rejected"}

AllDone == pc = "called" /\ \A t \in Tasks : Terminal(t) /\ Settled(t)

WaitingAt(t) == t \in Tasks /\ job[t].state = "Waiting"

PollingAt(t) == t \in Tasks /\ job[t].state = "Polling"

\* C20: when the service answers every request and in the end answers every
\* polled task with 'completed' or an error, every job of a run reaches
\* Completed or Errored with its handle settled, and runTests settles; a job
\* leaves its poll loop by such an answer only, so until then every delay is
\* followed by another status query, also after runTests has rejected.
C20_EveryJobEnds ==
  /\ Submitted ~> RunSettled
  /\ Submitted ~> AllDone
  /\ \A t \in 1..MaxJobs : WaitingAt(t) ~> PollingAt(t)
  /\ [][\A t \in Tasks :
         (job[t].state \in {"Polling", "Waiting"}
            /\ job'[t].state \notin {"Polling", "Waiting"})
           => (StatusResponse(t) /\ Terminal(t)')]_vars

\* runTests has rejected with the error of one job while another job is in
\* the delay between two status queries
C20_Witness ==
  /\ ret.state = "rejected"
  /\ \E t \in Tasks : t # ret.value.job /\ job[t].state = "Waiting"

====
